---- MODULE Spec2Model ----
(***************************************************************************)
(* uso-auth: Kakao token exchange, JWT validation and member upsert.       *)
(*                                                                         *)
(* src/server.js holds two variants of the same server (CommonJS, lines    *)
(* 1-140, and TypeScript, lines 142-314); src/unnamed/part_000 is a third, *)
(* stand-alone implementation of POST /auth/kakao built on jose.           *)
(*                                                                         *)
(* JavaScript values are tagged records [t, v]; strings are sequences of   *)
(* one-character strings so that String(), parseInt(), .length, .slice()   *)
(* and template literals are computed rather than assumed.                 *)
(*                                                                         *)
(* Four specifications: Spec (the servers, one request at a time, with a   *)
(* clock), BootSpec (any environment, any provider answer, one clock       *)
(* value), ConcSpec (two upserts in flight) and NormSpec (the row          *)
(* construction alone).                                                    *)
(***************************************************************************)
EXTENDS Integers, Sequences, FiniteSets, TLC

(***************************************************************************)
(* JavaScript values                                                       *)
(***************************************************************************)
Undef == [t |-> "undef", v |-> <<>>]
Null == [t |-> "null", v |-> <<>>]
NaN == [t |-> "nan", v |-> <<>>]
Num(n) == [t |-> "num", v |-> n]
Str(s) == [t |-> "str", v |-> s]
Obj(o) == [t |-> "obj", v |-> o]
True == [t |-> "bool", v |-> TRUE]

Digits == <<"0", "1", "2", "3", "4", "5", "6", "7", "8", "9">>

DigitSet == {Digits[i] : i \in 1..10}

DigitVal(c) == (CHOOSE i \in 1..10 : Digits[i] = c) - 1

RECURSIVE NatToStr(_)
NatToStr(n) ==
  IF n < 10 THEN <<Digits[n + 1]>>
  ELSE NatToStr(n \div 10) \o <<Digits[(n % 10) + 1]>>

IntToStr(n) == IF n < 0 THEN <<"-">> \o NatToStr(0 - n) ELSE NatToStr(n)

\* String(v) and `${v}`
JsString(v) ==
  CASE v.t = "str" -> v.v
    [] v.t = "num" -> IntToStr(v.v)
    [] v.t = "undef" -> <<"u", "n", "d", "e", "f", "i", "n", "e", "d">>
    [] v.t = "null" -> <<"n", "u", "l", "l">>
    [] v.t = "nan" -> <<"N", "a", "N">>
    [] OTHER -> <<"[", "o", "b", "j", "e", "c", "t", "]">>

\* ToBoolean(v): the test behind `a ? b : c`, `a || b` and `a && b`
Truthy(v) ==
  CASE v.t = "str" -> v.v # <<>>
    [] v.t = "num" -> v.v # 0
    [] v.t = "obj" -> TRUE
    [] OTHER -> FALSE

\* `a` where the code has `a || b`: the default is left out
JsOrNoDefault(a, b) == a

\* a || b
JsOr(a, b) == IF Truthy(a) THEN a ELSE b

\* a ?? b
JsNullish(a, b) == IF a.t \in {"undef", "null"} THEN b ELSE a

\* o.f : undefined on anything that is not an object carrying f
Get(o, f) == IF o.t = "obj" /\ f \in DOMAIN o.v THEN o.v[f] ELSE Undef

\* {}
EmptyObj == Obj([none |-> Undef])

RECURSIVE TrimStart(_)
TrimStart(s) ==
  IF s # <<>> /\ Head(s) = " " THEN TrimStart(Tail(s)) ELSE s

RECURSIVE DigitPrefix(_)
DigitPrefix(s) ==
  IF s # <<>> /\ Head(s) \in DigitSet
  THEN <<Head(s)>> \o DigitPrefix(Tail(s))
  ELSE <<>>

RECURSIVE DigitsToNat(_, _)
DigitsToNat(ds, acc) ==
  IF ds = <<>> THEN acc
  ELSE DigitsToNat(Tail(ds), (10 * acc) + DigitVal(Head(ds)))

\* parseInt(v, 10): leading blanks, an optional sign, the longest digit prefix
parseInt(v) ==
  LET s == TrimStart(JsString(v))
      signed == s # <<>> /\ Head(s) \in {"+", "-"}
      body == IF signed THEN Tail(s) ELSE s
      ds == DigitPrefix(body)
      n == DigitsToNat(ds, 0)
  IN  IF ds = <<>> THEN NaN
      ELSE IF signed /\ Head(s) = "-" THEN Num(0 - n) ELSE Num(n)

\* v.length : defined on strings only
Length(v) == IF v.t = "str" THEN Num(Len(v.v)) ELSE Undef

\* s.slice(from, to) on a string, 0 <= from <= to
slice(s, from, to) ==
  SubSeq(s, from + 1, IF to < Len(s) THEN to ELSE Len(s))

\* JSON.stringify of a value: NaN is written as null
Json(v) == IF v.t = "nan" THEN Null ELSE v

(***************************************************************************)
(* Row construction of POST /members/upsert                                *)
(***************************************************************************)
Kakao == <<"k", "a", "k", "a", "o">>
Guest == <<"G", "u", "e", "s", "t">>
Dash == <<"-">>

RowKeys ==
  {"provider", "provider_user_id", "email", "name", "nickname", "phone",
   "avatar_url", "gender", "age_range", "birthyear", "birthday", "birthdate"}

\* server.js 83-105
RowJs(data) ==
  LET acc == JsOr(Get(data, "kakao_account"), EmptyObj)
      profile == JsOr(Get(acc, "profile"), EmptyObj)
      kakaoId == JsString(Get(data, "id"))
      by == IF Truthy(Get(acc, "birthyear"))
            THEN parseInt(Get(acc, "birthyear")) ELSE Null
      bd == JsOr(Get(acc, "birthday"), Null)
      birthdate ==
        IF Truthy(by) /\ Truthy(bd) /\ Length(bd) = Num(4)
        THEN Str(JsString(by) \o Dash \o slice(bd.v, 0, 2)
                 \o Dash \o slice(bd.v, 2, 4))
        ELSE Null
  IN  [provider |-> Str(Kakao),
       provider_user_id |-> Str(kakaoId),
       email |-> JsOr(Get(acc, "email"), Null),
       name |-> JsOr(Get(acc, "name"), Null),
       nickname |-> JsOr(Get(profile, "nickname"), Str(Guest)),
       phone |-> JsOr(Get(acc, "phone_number"), Null),
       avatar_url |-> JsOr(Get(profile, "profile_image_url"), Null),
       gender |-> JsOr(Get(acc, "gender"), Null),
       age_range |-> JsOr(Get(acc, "age_range"), Null),
       birthyear |-> by,
       birthday |-> bd,
       birthdate |-> birthdate]

\* server.js 253-279
RowTs(data) ==
  LET acc == JsNullish(Get(data, "kakao_account"), EmptyObj)
      profile == JsNullish(Get(acc, "profile"), EmptyObj)
      kakaoId == JsString(Get(data, "id"))
      birthyear == IF Truthy(Get(acc, "birthyear"))
                   THEN parseInt(Get(acc, "birthyear")) ELSE Null
      birthday == JsNullish(Get(acc, "birthday"), Null)
      birthdate ==
        IF Truthy(birthyear) /\ Truthy(birthday)
           /\ Len(JsString(birthday)) = 4
        THEN LET mm == slice(JsString(birthday), 0, 2)
                 dd == slice(JsString(birthday), 2, 4)
             IN  Str(JsString(birthyear) \o Dash \o mm \o Dash \o dd)
        ELSE Null
  IN  [provider |-> Str(Kakao),
       provider_user_id |-> Str(kakaoId),
       email |-> JsNullish(Get(acc, "email"), Null),
       name |-> JsNullish(Get(acc, "name"), Null),
       nickname |-> JsNullish(Get(profile, "nickname"), Str(Guest)),
       phone |-> JsNullish(Get(acc, "phone_number"), Null),
       avatar_url |-> JsNullish(Get(profile, "profile_image_url"), Null),
       gender |-> JsNullish(Get(acc, "gender"), Null),
       age_range |-> JsNullish(Get(acc, "age_range"), Null),
       birthyear |-> birthyear,
       birthday |-> birthday,
       birthdate |-> birthdate]

BuildRow(variant, data) == IF variant = "js" THEN RowJs(data) ELSE RowTs(data)

\* the row as JSON.stringify writes it (request body to the store, res.json)
JsonRow(row) == [k \in DOMAIN row |-> Json(row[k])]

(***************************************************************************)
(* Process configuration and program constants                             *)
(***************************************************************************)
VARIABLES
  env,       \* process.env: which of the variables the code reads are set
  proc       \* the two processes: "boot", "listening" or "exited"

\* the variables of process.env that decide the start of a process
EnvNames ==
  {"SUPABASE_URL", "SUPABASE_SERVICE_ROLE", "APP_JWT_SECRET", "JWT_SECRET"}

APP_JWT_SECRET == "app-secret"
APP_JWT_ISSUER == "uso-auth"
APP_JWT_AUDIENCE == "uso-app"
\* part_000: process.env.JWT_SECRET || 'dev'
JWT_SECRET == IF env["JWT_SECRET"] THEN "jose-secret" ELSE "dev"

\* the test of server.js 21 and 164 with its operands negated: the process
\* goes on to app.listen
EnvComplete ==
  env["SUPABASE_URL"] /\ env["SUPABASE_SERVICE_ROLE"] /\ env["APP_JWT_SECRET"]

\* expiresIn: '30d', in seconds
ThirtyDays == 2592000
\* setExpirationTime('7d'), in seconds
SevenDays == 604800

(***************************************************************************)
(* Bounds of the model                                                     *)
(***************************************************************************)
\* number of clock advances in a behaviour
MaxTicks == 2
\* longest birthday string of the normalisation inputs
MaxBirthdayLen == 5

(***************************************************************************)
(* The provider (kapi.kakao.com)                                           *)
(***************************************************************************)
TokA == Str(<<"A">>)
TokB == Str(<<"B">>)
TokX == Str(<<"X">>)
TokC == Str(<<"C">>)

Neo == <<"N", "e", "o">>
Mail == <<"n", "@", "k">>

AccountA ==
  Obj([email |-> Str(Mail), name |-> Undef, phone_number |-> Undef,
       gender |-> Undef, age_range |-> Undef,
       birthyear |-> Str(<<"1", "9", "9", "0">>),
       birthday |-> Str(<<"0", "7", "1", "5">>),
       profile |-> Obj([nickname |-> Str(Neo), profile_image_url |-> Undef])])

\* user 555 with an account, user 555 with the id as a string and no account,
\* user 7 without a nickname
DataA1 == Obj([id |-> Num(555), kakao_account |-> AccountA])
DataA2 == Obj([id |-> Str(<<"5", "5", "5">>), kakao_account |-> Undef])
DataB1 == Obj([id |-> Num(7), kakao_account |-> Obj([email |-> Null])])

\* a response body that is not JSON, as the text received
Text(s) == [t |-> "text", v |-> s]

\* a 200 body without an id, and a 200 body that is a page of markup
NoId == EmptyObj
Page == Text(<<"<", "p", ">">>)

Http(status, body) == [net |-> TRUE, status |-> status, data |-> body]
NetworkError == [net |-> FALSE, status |-> 0, data |-> Undef]
Rejected == Http(401, Str(<<"n", "o">>))
\* no answer received yet
NoAnswer == [net |-> FALSE, status |-> -1, data |-> Undef]

\* GET /v2/user/me with Authorization: Bearer <at>
KakaoMe(at) ==
  {NetworkError} \cup
  (CASE at = TokA -> {Http(200, DataA1), Http(200, DataA2)}
     [] at = TokB -> {Http(200, DataB1)}
     [] at = TokC -> {Http(200, NoId), Http(200, Page)}
     [] OTHER -> {Rejected})

\* GET /v1/user/access_token_info with Authorization: Bearer <at>
KakaoTokenInfo(at) ==
  {NetworkError} \cup
  (IF at \in {TokA, TokB, TokC} THEN {Http(200, EmptyObj)} ELSE {Rejected})

\* fetch: r.ok
FetchOk(r) == r.status >= 200 /\ r.status <= 299

\* axios with validateStatus: () => true, then r.status !== 200
AxiosOk(r) == r.status = 200

\* the handler without its test of the provider's status
ProviderOkAlways(variant, r) == TRUE

ProviderOk(variant, r) == IF variant = "js" THEN FetchOk(r) ELSE AxiosOk(r)

\* await r.json() throws on a body that is not JSON
JsonThrows(r) == r.data.t = "text"

\* r.data of axios, and await r.text(): a body that is not JSON is handed
\* over as the string received
AxiosData(r) == IF r.data.t = "text" THEN Str(r.data.v) ELSE r.data

\* the provider call raised an exception inside the handler's try
ProviderThrows(variant, r) ==
  ~r.net \/ (variant = "js" /\ FetchOk(r) /\ JsonThrows(r))

(***************************************************************************)
(* Credentials                                                             *)
(***************************************************************************)
NoClaim == "(absent)"

\* jwt.sign(payload, secret, {algorithm: 'HS256', expiresIn: '30d'})
SignApp(kakaoId, nowSec) ==
  [wellformed |-> TRUE, alg |-> "HS256", key |-> APP_JWT_SECRET,
   sub |-> Str(Kakao \o <<":">> \o kakaoId), provider |-> Str(Kakao),
   kakao_id |-> Str(kakaoId), iat |-> nowSec, iss |-> APP_JWT_ISSUER,
   aud |-> APP_JWT_AUDIENCE, exp |-> nowSec + ThirtyDays]

\* new SignJWT({sub}).setProtectedHeader({alg}).setIssuedAt()
\*   .setExpirationTime('7d').sign(JWT_SECRET)
SignJose(id, nowSec) ==
  [wellformed |-> TRUE, alg |-> "HS256", key |-> JWT_SECRET,
   sub |-> Str(id), provider |-> Undef, kakao_id |-> Undef,
   iat |-> nowSec, iss |-> NoClaim, aud |-> NoClaim,
   exp |-> nowSec + SevenDays]

NoToken ==
  [wellformed |-> FALSE, alg |-> "", key |-> "", sub |-> Undef,
   provider |-> Undef, kakao_id |-> Undef, iat |-> 0, iss |-> NoClaim,
   aud |-> NoClaim, exp |-> 0]

Garbage == [NoToken EXCEPT !.alg = "garbage"]

\* what a client can put after "Bearer ": a credential it was issued, or a
\* token that differs from one in its signature, algorithm, issuer or audience
Tampered(c) ==
  {[c EXCEPT !.key = "other-secret"], [c EXCEPT !.alg = "HS512"],
   [c EXCEPT !.iss = "other-issuer"], [c EXCEPT !.aud = "other-app"]}

\* jwt.verify(token, secret, {algorithms: ['HS256'], issuer, audience}) at
\* clock value nowSec: "ok", or the check that threw
verify(tok, nowSec) ==
  CASE ~tok.wellformed -> "malformed"
    [] tok.alg # "HS256" -> "algorithm"
    [] tok.key # APP_JWT_SECRET -> "signature"
    [] nowSec >= tok.exp -> "expired"
    [] tok.aud # APP_JWT_AUDIENCE -> "audience"
    [] tok.iss # APP_JWT_ISSUER -> "issuer"
    [] OTHER -> "ok"

(***************************************************************************)
(* Requests and responses                                                  *)
(***************************************************************************)
NoHeader == [scheme |-> "", token |-> NoToken]

Schemes == {"Bearer", "bearer", "Basic"}

LowerCase(s) == IF s \in {"Bearer", "BEARER", "bearer"} THEN "bearer" ELSE s

\* hdr.match(/^Bearer (.+)$/i)
HeaderMatch(hdr) == LowerCase(hdr.scheme) = "bearer" /\ hdr.token # NoToken

Resp(status, error, detail, token, member) ==
  [status |-> status, error |-> error, detail |-> detail, token |-> token,
   member |-> member, ok |-> Undef]

NoResp == Resp(0, "", Undef, NoToken, Undef)

\* requireJwt answering an expired credential with a reason of its own
requireJwtLeaky(hdr, nowSec) ==
  IF ~HeaderMatch(hdr) THEN Resp(401, "no_auth", Undef, NoToken, Undef)
  ELSE IF verify(hdr.token, nowSec) = "expired"
       THEN Resp(401, "token_expired", Undef, NoToken, Undef)
       ELSE IF verify(hdr.token, nowSec) # "ok"
            THEN Resp(401, "invalid_token", Undef, NoToken, Undef)
            ELSE NoResp

\* requireJwt: NoResp when it calls next(), else the response it sends
requireJwt(hdr, nowSec) ==
  IF ~HeaderMatch(hdr) THEN Resp(401, "no_auth", Undef, NoToken, Undef)
  ELSE IF verify(hdr.token, nowSec) # "ok"
       THEN Resp(401, "invalid_token", Undef, NoToken, Undef)
       ELSE NoResp

\* requireJwt without its `if (!m) return`: a request without a Bearer header
\* falls through to next()
AuthenticatedLax(hdr, nowSec) ==
  ~HeaderMatch(hdr) \/ verify(hdr.token, nowSec) = "ok"

\* requireJwt reached next(): req.user is the verified payload
Authenticated(hdr, nowSec) == requireJwt(hdr, nowSec) = NoResp

(***************************************************************************)
(* State                                                                   *)
(***************************************************************************)
VARIABLES
  variant,   \* which server of server.js runs: "js" (1-140) or "ts" (142-314)
  now,       \* Math.floor(Date.now() / 1000)
  ticks,     \* clock advances so far
  store,     \* rows of the members table
  held,      \* the credential the client holds (NoToken: none yet)
  req,       \* the requests being served, and their responses
  normIn,    \* provider payload given to the row construction
  normRow    \* the row built from normIn

vars == <<env, proc, variant, now, ticks, store, held, req, normIn, normRow>>

Slots == {"r1"}

Idle ==
  [op |-> "", pc |-> "idle", header |-> NoHeader, at |-> Undef,
   user |-> NoToken, data |-> Undef, row |-> Undef, resp |-> NoResp,
   providerCalls |-> 0, storeCalls |-> 0, before |-> {}, wrote |-> Undef,
   got |-> NoAnswer, sa |-> ""]

\* a request slot is free until a request arrives on it
Free(s) == req[s].pc = "idle"

Arrive(op, hdr, at) == [Idle EXCEPT !.op = op, !.header = hdr, !.at = at]

Respond(r, resp) == [r EXCEPT !.pc = "done", !.resp = resp]

\* req.body?.access_token, req.body?.kakao_access_token
BodyTokens == {Undef, Str(<<>>), TokA, TokB, TokX}

\* the Authorization headers a client sends: none, or a scheme followed by
\* nothing, by junk, by its credential or by a tampered copy of it
Headers ==
  {NoHeader} \cup
  [scheme : Schemes, token : {NoToken, Garbage, held} \cup Tampered(held)]

\* the select without .eq('provider_user_id', kid)
SelectAnyUser(rows, provider, id) == {m \in rows : m.provider = provider}

\* members rows with the key (provider, provider_user_id)
Select(rows, provider, id) ==
  {m \in rows : m.provider = provider /\ m.provider_user_id = id}

\* an upsert that leaves the row of an existing key as it is
UpsertKeepFirst(rows, row) ==
  IF \E m \in rows : m.provider = row.provider
                      /\ m.provider_user_id = row.provider_user_id
  THEN rows ELSE rows \cup {row}

\* an insert where the code has the upsert on conflict
UpsertAsInsert(rows, row) == rows \cup {row}

\* supa.from('members').upsert(row, {onConflict: 'provider,provider_user_id'})
Upsert(rows, row) ==
  (rows \ Select(rows, row.provider, row.provider_user_id)) \cup {row}

(***************************************************************************)
(* POST /auth/kakao of server.js                                           *)
(***************************************************************************)
\* the handler without its `if (!accessToken) return`: the provider is called
\* with whatever the body holds
AuthKakaoUnchecked(s, at) ==
  /\ proc.server = "listening"
  /\ Free(s)
  /\ req' = [req EXCEPT ![s] =
       [Arrive("auth", NoHeader, at) EXCEPT
          !.pc = "fetch", !.providerCalls = 1]]
  /\ UNCHANGED <<env, proc, variant, now, ticks, store, held, normIn, normRow>>

\* server.js 31-38, 184-192: up to the provider call
AuthKakao(s, at) ==
  /\ proc.server = "listening"
  /\ Free(s)
  /\ req' = [req EXCEPT ![s] =
       IF ~Truthy(at)
       THEN Respond(Arrive("auth", NoHeader, at),
                    Resp(400, "missing access_token", Undef, NoToken, Undef))
       ELSE [Arrive("auth", NoHeader, at) EXCEPT
               !.pc = "fetch", !.providerCalls = 1]]
  /\ UNCHANGED <<env, proc, variant, now, ticks, store, held, normIn, normRow>>

\* server.js 39-54, 193-217: the provider answered
AuthKakaoAnswer(s, r) ==
  /\ req[s].op = "auth" /\ req[s].pc = "fetch"
  /\ r \in KakaoMe(req[s].at)
  /\ LET kakao == AxiosData(r)
         kakaoId == JsString(Get(kakao, "id"))
         token == SignApp(kakaoId, now)
     IN  req' = [req EXCEPT ![s] =
           IF ProviderThrows(variant, r)
           THEN Respond([@ EXCEPT !.got = r],
                        Resp(500, "server_error", Undef, NoToken, Undef))
           ELSE IF ~ProviderOk(variant, r)
           THEN Respond([@ EXCEPT !.got = r],
                        Resp(401, "kakao_invalid", AxiosData(r), NoToken,
                             Undef))
           ELSE Respond([@ EXCEPT !.got = r, !.data = kakao],
                        Resp(200, "", Undef, token, Undef))]
  /\ UNCHANGED <<env, proc, variant, now, ticks, store, held, normIn, normRow>>

(***************************************************************************)
(* POST /auth/kakao of part_000                                            *)
(***************************************************************************)
\* part_000 16-23: up to the access_token_info call
JoseAuthKakao(s, at) ==
  /\ proc.jose = "listening"
  /\ Free(s)
  /\ req' = [req EXCEPT ![s] =
       IF ~Truthy(at)
       THEN Respond(Arrive("jose", NoHeader, at),
                    Resp(400, "missing access_token", Undef, NoToken, Undef))
       ELSE [Arrive("jose", NoHeader, at) EXCEPT
               !.pc = "info", !.providerCalls = 1]]
  /\ UNCHANGED <<env, proc, variant, now, ticks, store, held, normIn, normRow>>

\* axios without validateStatus throws on a status outside 2xx
AxiosThrows(r) == ~r.net \/ ~FetchOk(r)

\* String(e), e?.response?.data
AxiosDetail(r) ==
  IF r.net THEN AxiosData(r) ELSE Str(<<"E", "r", "r", "o", "r">>)

\* part_000 21-26, 33-35: access_token_info answered
JoseInfoAnswer(s, r) ==
  /\ req[s].op = "jose" /\ req[s].pc = "info"
  /\ r \in KakaoTokenInfo(req[s].at)
  /\ req' = [req EXCEPT ![s] =
       IF AxiosThrows(r)
       THEN Respond([@ EXCEPT !.got = r],
                    Resp(401, "kakao_auth_failed", AxiosDetail(r), NoToken,
                         Undef))
       ELSE [@ EXCEPT !.got = r, !.pc = "fetch", !.providerCalls = @ + 1]]
  /\ UNCHANGED <<env, proc, variant, now, ticks, store, held, normIn, normRow>>

\* part_000 24-35: /v2/user/me answered; the 200 body is {token, user}, the
\* user (me.data) is carried in the detail field of the response
JoseMeAnswer(s, r) ==
  /\ req[s].op = "jose" /\ req[s].pc = "fetch"
  /\ r \in KakaoMe(req[s].at)
  /\ LET me == AxiosData(r)
         jwt == SignJose(JsString(Get(me, "id")), now)
     IN  req' = [req EXCEPT ![s] =
           IF AxiosThrows(r)
           THEN Respond([@ EXCEPT !.got = r],
                        Resp(401, "kakao_auth_failed", AxiosDetail(r),
                             NoToken, Undef))
           ELSE Respond([@ EXCEPT !.got = r, !.data = me],
                        Resp(200, "", me, jwt, Undef))]
  /\ UNCHANGED <<env, proc, variant, now, ticks, store, held, normIn, normRow>>

(***************************************************************************)
(* POST /members/upsert                                                    *)
(***************************************************************************)
\* server.js 58-79, 221-247: requireJwt, then the handler up to the provider
\* call
MembersUpsert(s, hdr, at) ==
  /\ proc.server = "listening"
  /\ Free(s)
  /\ hdr \in Headers
  /\ req' = [req EXCEPT ![s] =
       IF ~Authenticated(hdr, now)
       THEN Respond(Arrive("upsert", hdr, at), requireJwt(hdr, now))
       ELSE IF ~Truthy(at)
       THEN Respond([Arrive("upsert", hdr, at) EXCEPT !.user = hdr.token],
                    Resp(400, "missing kakao_access_token", Undef, NoToken,
                         Undef))
       ELSE [Arrive("upsert", hdr, at) EXCEPT
               !.user = hdr.token, !.pc = "fetch", !.providerCalls = 1]]
  /\ UNCHANGED <<env, proc, variant, now, ticks, store, held, normIn, normRow>>

\* server.js 80-111, 248-285: the provider answered; build the row and send
\* the upsert
MembersUpsertAnswer(s, r) ==
  /\ req[s].op = "upsert" /\ req[s].pc = "fetch"
  /\ r \in KakaoMe(req[s].at)
  /\ req' = [req EXCEPT ![s] =
       IF ProviderThrows(variant, r)
       THEN Respond([@ EXCEPT !.got = r],
                    Resp(500, "server_error", Undef, NoToken, Undef))
       ELSE IF ~ProviderOk(variant, r)
       THEN Respond([@ EXCEPT !.got = r],
                    Resp(401, "kakao_invalid", AxiosData(r), NoToken, Undef))
       ELSE [@ EXCEPT !.got = r, !.data = AxiosData(r),
                      !.row = Obj(BuildRow(variant, AxiosData(r))),
                      !.pc = "store", !.storeCalls = 1]]
  /\ UNCHANGED <<env, proc, variant, now, ticks, store, held, normIn, normRow>>

\* what the store can answer to a call: an error, rows, or no rows
StoreAnswers == {"error", "rows", "empty"}

StoreMessage == Str(<<"d", "b">>)

\* up?.[0] without the fallback to row
MemberNoFallback(variant_, up, row) == up

\* up?.[0] || row (js), up?.[0] ?? row (ts)
Member(variant_, up, row) ==
  IF variant_ = "js" THEN JsOr(up, row) ELSE JsNullish(up, row)

\* server.js 107-118, 281-292: the store applied the upsert and answered
MembersUpsertStore(s, sa) ==
  /\ req[s].op = "upsert" /\ req[s].pc = "store"
  /\ sa \in StoreAnswers
  /\ LET row == Obj(JsonRow(req[s].row.v))
         up == IF sa = "rows" THEN row ELSE Undef
     IN  IF sa = "error"
         THEN /\ req' = [req EXCEPT ![s] = Respond([@ EXCEPT !.sa = sa],
                   Resp(500, "supabase_error", StoreMessage, NoToken, Undef))]
              /\ UNCHANGED store
         ELSE /\ store' = Upsert(store, row.v)
              /\ req' = [req EXCEPT ![s] = Respond(
                   [@ EXCEPT !.sa = sa, !.wrote = row,
                             !.before = Select(store, row.v.provider,
                                               row.v.provider_user_id)],
                   [Resp(200, "", Undef, NoToken, Member(variant, up, row))
                      EXCEPT !.ok = True])]
  /\ UNCHANGED <<env, proc, variant, now, ticks, held, normIn, normRow>>

(***************************************************************************)
(* GET /me                                                                 *)
(***************************************************************************)
\* server.js 58-69, 122-130, 296-304: requireJwt, then the select is sent
Me(s, hdr) ==
  /\ proc.server = "listening"
  /\ Free(s)
  /\ hdr \in Headers
  /\ req' = [req EXCEPT ![s] =
       IF ~Authenticated(hdr, now)
       THEN Respond(Arrive("me", hdr, Undef), requireJwt(hdr, now))
       ELSE [Arrive("me", hdr, Undef) EXCEPT
               !.user = hdr.token, !.pc = "store", !.storeCalls = 1]]
  /\ UNCHANGED <<env, proc, variant, now, ticks, store, held, normIn, normRow>>

\* a read that answers 404 where the code answers {member: null}
MeStoreNotFound(s, sa) ==
  /\ req[s].op = "me" /\ req[s].pc = "store"
  /\ sa \in StoreAnswers
  /\ LET kid == req[s].user.kakao_id
         data == Select(store, Str(Kakao), kid)
     IN  \/ /\ sa = "error"
            /\ req' = [req EXCEPT ![s] = Respond([@ EXCEPT !.sa = sa],
                 Resp(500, "supabase_error", StoreMessage, NoToken, Undef))]
         \/ /\ sa = "rows" /\ data # {}
            /\ \E m \in data :
                 req' = [req EXCEPT ![s] = Respond([@ EXCEPT !.sa = sa],
                   Resp(200, "", Undef, NoToken, Obj(m)))]
         \/ /\ sa = "empty" /\ data = {}
            /\ req' = [req EXCEPT ![s] = Respond([@ EXCEPT !.sa = sa],
                 Resp(404, "not_found", Undef, NoToken, Undef))]
  /\ UNCHANGED <<env, proc, variant, now, ticks, store, held, normIn, normRow>>

\* server.js 125-135, 299-309: the store answered the select
MeStore(s, sa) ==
  /\ req[s].op = "me" /\ req[s].pc = "store"
  /\ sa \in StoreAnswers
  /\ LET kid == req[s].user.kakao_id
         data == Select(store, Str(Kakao), kid)
     IN  \/ /\ sa = "error"
            /\ req' = [req EXCEPT ![s] = Respond([@ EXCEPT !.sa = sa],
                 Resp(500, "supabase_error", StoreMessage, NoToken, Undef))]
         \/ /\ sa = "rows" /\ data # {}
            /\ \E m \in data :
                 req' = [req EXCEPT ![s] = Respond([@ EXCEPT !.sa = sa],
                   Resp(200, "", Undef, NoToken, Obj(m)))]
         \/ /\ sa = "empty" /\ data = {}
            /\ req' = [req EXCEPT ![s] = Respond([@ EXCEPT !.sa = sa],
                 Resp(200, "", Undef, NoToken, Null))]
  /\ UNCHANGED <<env, proc, variant, now, ticks, store, held, normIn, normRow>>

(***************************************************************************)
(* Start of the processes                                                  *)
(***************************************************************************)
\* server.js 12-24 and 140 (152-169 and 314): exit(1) when a required
\* variable is missing, else listen; part_000 11-12 and 37: listen, with
\* 'dev' standing in for a missing JWT_SECRET
Startup ==
  /\ proc.server = "boot"
  /\ proc' = [server |-> IF EnvComplete THEN "listening" ELSE "exited",
              jose |-> "listening"]
  /\ UNCHANGED <<env, variant, now, ticks, store, held, req, normIn, normRow>>

(***************************************************************************)
(* The client                                                              *)
(***************************************************************************)
\* res.json(...) reached the client: the request is over; a client that is
\* sent a token keeps it, or keeps the credential it already had
Deliver(s) ==
  /\ req[s].pc = "done"
  /\ req' = [req EXCEPT ![s] = Idle]
  /\ \/ /\ req[s].resp.token # NoToken
        /\ held' = req[s].resp.token
     \/ UNCHANGED held
  /\ UNCHANGED <<env, proc, variant, now, ticks, store, normIn, normRow>>

(***************************************************************************)
(* The clock                                                               *)
(***************************************************************************)
Jumps == {1, ThirtyDays - 1}

Tick(d) ==
  /\ ticks < MaxTicks
  /\ d \in Jumps
  /\ now' = now + d
  /\ ticks' = ticks + 1
  /\ UNCHANGED <<env, proc, variant, store, held, req, normIn, normRow>>

(***************************************************************************)
(* Specification of the servers                                            *)
(***************************************************************************)
\* the deployment of the servers' specification: every variable server.js
\* requires is set, JWT_SECRET is left to its default
Deployed == [n \in EnvNames |-> n # "JWT_SECRET"]

Init ==
  /\ env = Deployed
  /\ proc = [server |-> "boot", jose |-> "boot"]
  /\ variant \in {"js", "ts"}
  /\ now = 0
  /\ ticks = 0
  /\ store = {}
  /\ held = NoToken
  /\ req = [s \in Slots |-> Idle]
  /\ normIn = Undef
  /\ normRow = Undef

ProviderAnswers ==
  {NetworkError, Rejected}
  \cup {Http(200, d) : d \in {DataA1, DataA2, DataB1, NoId, Page, EmptyObj}}

Next ==
  \/ Startup
  \/ \E s \in Slots, at \in BodyTokens : AuthKakao(s, at)
  \/ \E s \in Slots, r \in ProviderAnswers : AuthKakaoAnswer(s, r)
  \/ \E s \in Slots, at \in BodyTokens : JoseAuthKakao(s, at)
  \/ \E s \in Slots, r \in ProviderAnswers : JoseInfoAnswer(s, r)
  \/ \E s \in Slots, r \in ProviderAnswers : JoseMeAnswer(s, r)
  \/ \E s \in Slots, hdr \in Headers, at \in BodyTokens :
       MembersUpsert(s, hdr, at)
  \/ \E s \in Slots, r \in ProviderAnswers : MembersUpsertAnswer(s, r)
  \/ \E s \in Slots, sa \in StoreAnswers : MembersUpsertStore(s, sa)
  \/ \E s \in Slots, hdr \in Headers : Me(s, hdr)
  \/ \E s \in Slots, sa \in StoreAnswers : MeStore(s, sa)
  \/ \E s \in Slots : Deliver(s)
  \/ \E d \in Jumps : Tick(d)

Spec == Init /\ [][Next]_vars

(***************************************************************************)
(* Specification of the surroundings: the processes are started in any     *)
(* environment and serve, at one clock value, requests that may also carry *)
(* an access token the provider answers with a body it should not send     *)
(***************************************************************************)
AllBodyTokens == BodyTokens \cup {TokC}

BootInit ==
  /\ env \in [EnvNames -> BOOLEAN]
  /\ proc = [server |-> "boot", jose |-> "boot"]
  /\ variant \in {"js", "ts"}
  /\ now = 0
  /\ ticks = 0
  /\ store = {}
  /\ held = NoToken
  /\ req = [s \in Slots |-> Idle]
  /\ normIn = Undef
  /\ normRow = Undef

BootNext ==
  \/ Startup
  \/ \E s \in Slots, at \in AllBodyTokens : AuthKakao(s, at)
  \/ \E s \in Slots, r \in ProviderAnswers : AuthKakaoAnswer(s, r)
  \/ \E s \in Slots, at \in AllBodyTokens : JoseAuthKakao(s, at)
  \/ \E s \in Slots, r \in ProviderAnswers : JoseInfoAnswer(s, r)
  \/ \E s \in Slots, r \in ProviderAnswers : JoseMeAnswer(s, r)
  \/ \E s \in Slots, hdr \in Headers, at \in AllBodyTokens :
       MembersUpsert(s, hdr, at)
  \/ \E s \in Slots, r \in ProviderAnswers : MembersUpsertAnswer(s, r)
  \/ \E s \in Slots, sa \in StoreAnswers : MembersUpsertStore(s, sa)
  \/ \E s \in Slots, hdr \in Headers : Me(s, hdr)
  \/ \E s \in Slots, sa \in StoreAnswers : MeStore(s, sa)
  \/ \E s \in Slots : Deliver(s)

BootSpec == BootInit /\ [][BootNext]_vars

(***************************************************************************)
(* Specification of concurrent upserts: one client, holding the credential *)
(* it was issued, has two requests in flight; the handlers take their      *)
(* steps in any order, the store applies each upsert in one step           *)
(***************************************************************************)
ConcSlots == {"r1", "r2"}

ConcInit ==
  /\ env = Deployed
  /\ proc = [server |-> "boot", jose |-> "boot"]
  /\ variant \in {"js", "ts"}
  /\ now = 0
  /\ ticks = 0
  /\ store = {}
  /\ held = NoToken
  /\ req = [s \in ConcSlots |-> Idle]
  /\ normIn = Undef
  /\ normRow = Undef

ConcNext ==
  \/ Startup
  \/ \E s \in ConcSlots, at \in BodyTokens : AuthKakao(s, at)
  \/ \E s \in ConcSlots, r \in ProviderAnswers : AuthKakaoAnswer(s, r)
  \/ \E s \in ConcSlots, at \in BodyTokens :
       MembersUpsert(s, [scheme |-> "Bearer", token |-> held], at)
  \/ \E s \in ConcSlots, r \in ProviderAnswers : MembersUpsertAnswer(s, r)
  \/ \E s \in ConcSlots, sa \in StoreAnswers : MembersUpsertStore(s, sa)
  \/ \E s \in ConcSlots : Deliver(s)

ConcSpec == ConcInit /\ [][ConcNext]_vars

(***************************************************************************)
(* Specification of the row construction alone: a provider payload drawn   *)
(* from PayloadInputs, then the row built from it                          *)
(***************************************************************************)
\* all strings over the alphabet of length at most n
StringsUpTo(alphabet, n) ==
  UNION {{[i \in 1..k |-> f[i]] : f \in [1..k -> alphabet]} : k \in 0..n}

BirthdayInputs ==
  {Undef, Null, Num(1231), Num(715), Str(<<"0", "7", "1", "5">>)}
  \cup {Str(b) : b \in StringsUpTo({"1", "a"}, MaxBirthdayLen)}

BirthyearInputs ==
  {Undef, Null, Num(1990), Num(0), Str(<<>>), Str(<<"1", "9", "9", "0">>),
   Str(<<"0">>), Str(<<"9", "0">>), Str(<<"a", "b", "c">>),
   Str(<<"1", "9", "9", "0", "x">>), Str(<<" ", "1", "9", "9", "0">>),
   Str(<<"-", "5">>)}

\* an optional field: not sent, null, empty, or a value
OptionalInputs == {Undef, Null, Str(<<>>), Str(<<"x">>)}

Account(email, name, phone, gender, age, birthyear, birthday, profile) ==
  Obj([email |-> email, name |-> name, phone_number |-> phone,
       gender |-> gender, age_range |-> age, birthyear |-> birthyear,
       birthday |-> birthday, profile |-> profile])

Payload(account) == Obj([id |-> Num(555), kakao_account |-> account])

\* payloads that vary the birth fields
BirthPayloads ==
  {Payload(Account(Undef, Undef, Undef, Undef, Undef, y, d, Undef)) :
     y \in BirthyearInputs, d \in BirthdayInputs}

\* payloads that vary the optional fields, the profile and the account
OptionalPayloads ==
  {Payload(a) : a \in {Undef, Null, Str(<<>>)}}
  \cup {Payload(Account(e, n, p, g, a, Undef, Undef, pr)) :
          e \in OptionalInputs, n \in OptionalInputs, p \in OptionalInputs,
          g \in OptionalInputs, a \in OptionalInputs, pr \in {Undef, Null}}
  \cup {Payload(Account(e, Undef, Undef, g, Undef, Undef, Undef,
                        Obj([nickname |-> k, profile_image_url |-> u]))) :
          e \in OptionalInputs, g \in OptionalInputs, k \in OptionalInputs,
          u \in OptionalInputs}

PayloadInputs == BirthPayloads \cup OptionalPayloads

NormInit ==
  /\ env = Deployed
  /\ proc = [server |-> "boot", jose |-> "boot"]
  /\ variant \in {"js", "ts"}
  /\ now = 0
  /\ ticks = 0
  /\ store = {}
  /\ held = NoToken
  /\ req = [s \in Slots |-> Idle]
  /\ normIn \in PayloadInputs
  /\ normRow = Undef

\* server.js 83-105, 253-279 applied to normIn
Normalize ==
  /\ normRow = Undef
  /\ normRow' = Obj(BuildRow(variant, normIn))
  /\ UNCHANGED <<env, proc, variant, now, ticks, store, held, req, normIn>>

NormNext == Normalize

NormSpec == NormInit /\ [][NormNext]_vars

(***************************************************************************)
(* Properties                                                              *)
(***************************************************************************)
Done(s) == req[s].pc = "done"

Protected(s) == req[s].op \in {"upsert", "me"}

\* the request was answered by requireJwt: the handler never ran
Refused(s) == Done(s) /\ Protected(s) /\ req[s].user = NoToken

Bearer(tok) == [scheme |-> "Bearer", token |-> tok]

InvalidToken == Resp(401, "invalid_token", Undef, NoToken, Undef)

NoAuth == Resp(401, "no_auth", Undef, NoToken, Undef)

\* C1: every successful POST /auth/kakao, in each of its implementations,
\* issues a credential whose subject is "kakao:" followed by the string form
\* of the id the provider returned, and whose provider and kakao_id claims
\* agree with that subject.
C1_SubjectIsProviderAndId ==
  \A s \in Slots :
    (Done(s) /\ req[s].op \in {"auth", "jose"} /\ req[s].resp.status = 200)
    => LET c == req[s].resp.token
           id == JsString(Get(req[s].data, "id"))
       IN  /\ c.provider = Str(Kakao)
           /\ c.kakao_id = Str(id)
           /\ c.sub = Str(Kakao \o <<":">> \o id)

\* C2: a credential a client was issued is accepted by requireJwt at every
\* clock value before issuedAt + 30 days and refused at every clock value
\* after it.
C2_AcceptedUntilExpiry ==
  held # NoToken
  => /\ now < held.iat + ThirtyDays => Authenticated(Bearer(held), now)
     /\ now > held.iat + ThirtyDays => ~Authenticated(Bearer(held), now)

\* C3 as stated: every request that requireJwt refuses, the one without an
\* Authorization header included, gets the one invalid_token response.
C3_SingleOutcome ==
  \A s \in Slots : Refused(s) => req[s].resp = InvalidToken

\* C3 as amended: a request whose header matches Bearer <token> and whose
\* token fails verification (malformed, algorithm, signature, issuer,
\* audience, expiry) gets the one invalid_token response; a request whose
\* header is absent or does not match gets the no_auth response.
C3_SingleOutcomePerStage ==
  \A s \in Slots :
    Refused(s)
    => req[s].resp = IF HeaderMatch(req[s].header) THEN InvalidToken
                     ELSE NoAuth

\* an expired credential, genuine in every other respect, was refused
C3_Witness ==
  \E s \in Slots :
    /\ Refused(s)
    /\ HeaderMatch(req[s].header)
    /\ req[s].header.token = held
    /\ held.key = APP_JWT_SECRET
    /\ req[s].resp = InvalidToken

\* C4: the record an upsert writes, and the record a read returns, has the
\* key (provider, kakao_id) of the credential presented on that request.
C4_ScopedToSubject ==
  \A s \in Slots :
    Done(s)
    => /\ (req[s].op = "upsert" /\ req[s].wrote # Undef)
          => /\ req[s].wrote.v.provider = req[s].user.provider
             /\ req[s].wrote.v.provider_user_id = req[s].user.kakao_id
       /\ (req[s].op = "me" /\ req[s].resp.member.t = "obj")
          => /\ req[s].resp.member.v.provider = req[s].user.provider
             /\ req[s].resp.member.v.provider_user_id = req[s].user.kakao_id

\* C5: an upsert or read request that arrives without a matching Bearer
\* header is answered 401 no_auth, one whose token fails verification is
\* answered 401; either is answered on arrival, with no provider call, no
\* store call and the store unchanged, whatever its body holds.
C5_RefusedBeforeAnyCall ==
  [][\A s \in Slots :
       (/\ req[s].pc = "idle" /\ req'[s].pc # "idle"
        /\ req'[s].op \in {"upsert", "me"}
        /\ \/ ~HeaderMatch(req'[s].header)
           \/ verify(req'[s].header.token, now) # "ok")
       => /\ req'[s].pc = "done"
          /\ req'[s].resp.status = 401
          /\ ~HeaderMatch(req'[s].header) => req'[s].resp.error = "no_auth"
          /\ req'[s].providerCalls = 0
          /\ req'[s].storeCalls = 0
          /\ req'[s].wrote = Undef
          /\ store' = store]_vars

\* an upsert without header and without kakao_access_token was answered
\* no_auth
C5_Witness ==
  \E s \in Slots :
    /\ Done(s) /\ req[s].op = "upsert"
    /\ req[s].header = NoHeader
    /\ req[s].at = Undef
    /\ req[s].resp = NoAuth
    /\ req[s].providerCalls = 0 /\ req[s].storeCalls = 0

SameKey(m, n) ==
  m.provider = n.provider /\ m.provider_user_id = n.provider_user_id

\* the step on which the store answers request s with success
StoreSucceeds(s, op) ==
  /\ req[s].op = op /\ req[s].pc = "store"
  /\ req'[s].pc = "done" /\ req'[s].resp.status = 200

\* C6: a successful upsert leaves exactly one record for its key and leaves
\* the records of the other keys alone; when the store already holds the row
\* built from the same provider data (an earlier upsert of the same identity
\* with the same data), the store is unchanged by the step and the record
\* returned is that stored record.
C6_Idempotent ==
  [][\A s \in Slots :
       StoreSucceeds(s, "upsert")
       => LET w == JsonRow(req[s].row.v)
              m == req'[s].resp.member
          IN  /\ m.t = "obj"
              /\ Cardinality({x \in store' : SameKey(x, w)}) = 1
              /\ {x \in store' : ~SameKey(x, w)}
                   = {x \in store : ~SameKey(x, w)}
              /\ w \in store => (store' = store /\ m.v = w)]_vars

\* a second upsert of the same identity with the same data was answered
C6_Witness ==
  \E s \in Slots :
    /\ Done(s) /\ req[s].op = "upsert" /\ req[s].resp.status = 200
    /\ req[s].before = {req[s].wrote.v}
    /\ req[s].resp.member = req[s].wrote
    /\ req[s].wrote.v \in store

IsoDate(text) ==
  /\ Len(text) = 10
  /\ text[5] = "-" /\ text[8] = "-"
  /\ \A i \in {1, 2, 3, 4, 6, 7, 9, 10} : text[i] \in DigitSet

\* C8: the birthdate of the row is null unless the row has a birthyear and a
\* 4-character birthday; when it has both, the birthdate is the birthyear,
\* the first two and the last two characters of the birthday joined by
\* dashes, and it is a well-formed YYYY-MM-DD date.
C8_BirthDate ==
  normRow # Undef
  => LET r == normRow.v
         y == r.birthyear
         d == r.birthday
     IN  IF y.t = "num" /\ d.t = "str" /\ Len(d.v) = 4
         THEN /\ r.birthdate
                   = Str(IntToStr(y.v) \o Dash \o SubSeq(d.v, 1, 2)
                         \o Dash \o SubSeq(d.v, 3, 4))
              /\ IsoDate(r.birthdate.v)
         ELSE r.birthdate = Null

NotSupplied(v) == v \in {Undef, Null}

\* row key and the account field it is read from
AccountFields ==
  {<<"email", "email">>, <<"name", "name">>, <<"phone", "phone_number">>,
   <<"gender", "gender">>, <<"age_range", "age_range">>,
   <<"birthday", "birthday">>}

\* C9: the row has every key; its nickname is "Guest" when the provider
\* supplies no nickname; each of email, name, phone, avatar_url, gender,
\* age_range and birthday is null, not undefined (an omitted key) and not a
\* string, when the provider does not supply it.
C9_Defaults ==
  normRow # Undef
  => LET r == normRow.v
         acc == Get(normIn, "kakao_account")
         profile == Get(acc, "profile")
     IN  /\ DOMAIN r = RowKeys
         /\ \A k \in RowKeys : r[k] # Undef /\ JsonRow(r)[k] # Undef
         /\ NotSupplied(Get(profile, "nickname")) => r.nickname = Str(Guest)
         /\ NotSupplied(Get(profile, "profile_image_url"))
              => r.avatar_url = Null
         /\ \A f \in AccountFields :
              NotSupplied(Get(acc, f[2])) => r[f[1]] = Null

\* a row built from an account with a gender and no nickname and no email
C9_Witness ==
  /\ normRow # Undef
  /\ Get(normIn, "kakao_account").t = "obj"
  /\ Get(Get(normIn, "kakao_account"), "gender") = Str(<<"x">>)
  /\ Get(Get(normIn, "kakao_account"), "email") = Undef
  /\ Get(Get(Get(normIn, "kakao_account"), "profile"), "nickname") = Null
  /\ normRow.v.nickname = Str(Guest)
  /\ normRow.v.email = Null
  /\ normRow.v.gender = Str(<<"x">>)

\* C10: the birthyear of the row is null or an integer; it is null when the
\* provider's birthyear is absent or a string without a leading integer, and
\* the integer parsed from the string otherwise.
C10_BirthYear ==
  normRow # Undef
  => LET y == Get(Get(normIn, "kakao_account"), "birthyear")
         r == normRow.v.birthyear
     IN  /\ r.t \in {"null", "num"}
         /\ NotSupplied(y) => r = Null
         /\ y.t = "str"
              => r = IF parseInt(y) = NaN THEN Null ELSE parseInt(y)

\* the provider answered with a status outside 2xx
NonSuccess(r) == r.net /\ ~(r.status >= 200 /\ r.status <= 299)

\* the provider could not be reached, or its 2xx body is not JSON
Unusable(r) ==
  r # NoAnswer /\ (~r.net \/ (~NonSuccess(r) /\ r.data.t = "text"))

ServerError == Resp(500, "server_error", Undef, NoToken, Undef)

\* C11: every exchange, upsert and read request that its handler answers
\* follows the taxonomy: a missing input token gives 400; a non-success
\* status of the provider gives 401 with the provider's body as detail; a
\* store error gives 500 with the store's message; a provider that cannot be
\* reached, or whose body cannot be parsed, gives the opaque 500
\* server_error and never a 401 or a success.
C11_Taxonomy ==
  \A s \in Slots :
    (Done(s) /\ ~Refused(s))
    => LET r == req[s]
       IN  /\ (r.op \in {"auth", "jose", "upsert"} /\ ~Truthy(r.at))
                => r.resp.status = 400
           /\ NonSuccess(r.got)
                => r.resp.status = 401 /\ r.resp.detail = r.got.data
           /\ r.sa = "error"
                => /\ r.resp.status = 500
                   /\ r.resp.error = "supabase_error"
                   /\ r.resp.detail = StoreMessage
           /\ Unusable(r.got) => r.resp = ServerError

ServerOps == {"auth", "upsert", "me"}

\* C12: a process started without the store endpoint, the store credential
\* or its signing secret never listens, never serves a request and never
\* signs a credential; no credential is signed with the built-in default
\* secret.
C12_ExitsWithoutConfiguration ==
  /\ ~(env["SUPABASE_URL"] /\ env["SUPABASE_SERVICE_ROLE"]
       /\ env["APP_JWT_SECRET"])
     => /\ proc.server # "listening"
        /\ \A s \in Slots : req[s].op \notin ServerOps
  /\ ~env["JWT_SECRET"]
     => /\ proc.jose # "listening"
        /\ \A s \in Slots : req[s].op # "jose"
  /\ \A s \in Slots :
       req[s].resp.token # NoToken => req[s].resp.token.key # "dev"

\* the row request s sends to the store, as built from the answer it got
RowOf(r) == JsonRow(BuildRow(variant, AxiosData(r)))

\* C13: within an upsert request the store is called, and the store is
\* changed, only after the provider answered that request with a success
\* status, and the row sent and written is the one built from that answer;
\* when the provider rejects the token or cannot be reached the request is
\* answered without a store call and the store is unchanged.
C13_UpsertAfterVerification ==
  [][\A s \in Slots :
       req[s].op = "upsert"
       => /\ req'[s].storeCalls > req[s].storeCalls
             => /\ req[s].pc = "fetch"
                /\ req'[s].got.net /\ ~NonSuccess(req'[s].got)
                /\ JsonRow(req'[s].row.v) = RowOf(req'[s].got)
          /\ (req[s].pc = "store" /\ req'[s].wrote # Undef)
             => /\ req[s].got.net /\ ~NonSuccess(req[s].got)
                /\ req'[s].wrote.v = RowOf(req[s].got)
                /\ store' = (store \ {x \in store :
                                        SameKey(x, RowOf(req[s].got))})
                              \cup {RowOf(req[s].got)}
          /\ store' # store => req[s].pc = "store" /\ req'[s].wrote # Undef
          /\ (req[s].pc = "fetch"
              /\ (~req'[s].got.net \/ NonSuccess(req'[s].got)))
             => /\ req'[s].pc = "done"
                /\ req'[s].resp.status \in {401, 500}
                /\ req'[s].storeCalls = 0
                /\ req'[s].wrote = Undef
                /\ store' = store]_vars

\* an upsert was answered 200 after the provider's 200, and the store holds
\* the row built from the provider's answer
C13_Witness ==
  \E s \in Slots :
    /\ Done(s) /\ req[s].op = "upsert" /\ req[s].resp.status = 200
    /\ req[s].got = Http(200, DataA1)
    /\ req[s].storeCalls = 1
    /\ req[s].wrote.v = RowOf(req[s].got)
    /\ req[s].wrote.v \in store

\* C14: with upsert requests of one key in flight at once and their steps
\* interleaved in any order, the store holds at most one record per key in
\* every state; the store changes only when it applies an upsert, and right
\* after it applied one the record of that key is, field by field, the row
\* of that upsert, so that once every request is answered the record is the
\* row of the upsert applied last.
C14_LastWriteWins ==
  /\ [](\A x, y \in store : SameKey(x, y) => x = y)
  /\ [][/\ store' # store
           => \E s \in DOMAIN req : StoreSucceeds(s, "upsert")
        /\ \A s \in DOMAIN req :
             StoreSucceeds(s, "upsert")
             => LET w == JsonRow(req[s].row.v)
                IN  /\ {x \in store' : SameKey(x, w)} = {w}
                    /\ {x \in store' : ~SameKey(x, w)}
                         = {x \in store : ~SameKey(x, w)}]_vars

\* two upserts of the key (kakao, 555) were in flight together, with
\* different rows; both are answered, the one applied last found the row of
\* the other, and the store holds the row applied last alone
C14_Witness ==
  /\ DOMAIN req = ConcSlots
  /\ \A s \in ConcSlots :
       Done(s) /\ req[s].op = "upsert" /\ req[s].resp.status = 200
  /\ SameKey(req["r1"].wrote.v, req["r2"].wrote.v)
  /\ req["r1"].wrote # req["r2"].wrote
  /\ req["r1"].before = {}
  /\ req["r2"].before = {req["r1"].wrote.v}
  /\ {x \in store : SameKey(x, req["r2"].wrote.v)} = {req["r2"].wrote.v}

\* C15: a request that verifies an access token with the provider makes
\* exactly one call to the provider, and an upsert or read request makes at
\* most one call to the store; no call is made again after a failure.
C15_OneCallNoRetry ==
  \A s \in Slots :
    /\ req[s].providerCalls <= 1
    /\ req[s].storeCalls <= 1
    /\ (Done(s) /\ req[s].got # NoAnswer) => req[s].providerCalls = 1

\* req.body holds no access token, or an empty one
MissingToken(at) == at \in {Undef, Null, Str(<<>>)}

\* C16: an exchange request, and an upsert request that passed requireJwt,
\* whose body holds no access token or an empty one is answered 400 on
\* arrival: no provider call, no store call, the store unchanged and no
\* credential in the response.
C16_MissingTokenFailsFirst ==
  [][\A s \in Slots :
       (/\ req[s].pc = "idle" /\ req'[s].pc # "idle"
        /\ MissingToken(req'[s].at)
        /\ \/ req'[s].op \in {"auth", "jose"}
           \/ /\ req'[s].op = "upsert"
              /\ HeaderMatch(req'[s].header)
              /\ verify(req'[s].header.token, now) = "ok")
       => /\ req'[s].pc = "done"
          /\ req'[s].resp.status = 400
          /\ req'[s].resp.token = NoToken
          /\ req'[s].providerCalls = 0
          /\ req'[s].storeCalls = 0
          /\ req'[s].got = NoAnswer
          /\ store' = store]_vars

\* an upsert with a valid credential and an empty kakao_access_token was
\* answered 400 without a call
C16_Witness ==
  \E s \in Slots :
    /\ Done(s) /\ req[s].op = "upsert"
    /\ req[s].user # NoToken /\ req[s].user = held
    /\ req[s].at = Str(<<>>)
    /\ req[s].resp.status = 400
    /\ req[s].resp.error = "missing kakao_access_token"
    /\ req[s].providerCalls = 0 /\ req[s].storeCalls = 0

\* C17: the store changes only on the step that applies the upsert of an
\* upsert request; an exchange request makes no store call and leaves the
\* store alone; a read request leaves the store alone, and when the store
\* answers it and holds no record for the credential's identity the response
\* is 200 with a null member.
C17_StoreFrame ==
  [][/\ store' # store
        => \E s \in Slots :
             /\ req[s].op = "upsert" /\ req[s].pc = "store"
             /\ req'[s].pc = "done" /\ req'[s].wrote # Undef
     /\ \A s \in Slots :
          /\ req'[s].op \in {"auth", "jose"}
             => req'[s].storeCalls = 0 /\ store' = store
          /\ req'[s].op = "me" => store' = store
          /\ (/\ req[s].op = "me" /\ req[s].pc = "store"
              /\ req'[s].pc = "done" /\ req'[s].sa # "error"
              /\ ~\E x \in store :
                    /\ x.provider = Str(Kakao)
                    /\ x.provider_user_id = req[s].user.kakao_id)
             => /\ req'[s].resp.status = 200
                /\ req'[s].resp.member = Null]_vars

\* a read with a credential whose identity has no record, while the store
\* holds the record of another identity, was answered 200 with a null member
C17_Witness ==
  \E s \in Slots :
    /\ Done(s) /\ req[s].op = "me" /\ req[s].storeCalls = 1
    /\ req[s].resp.status = 200 /\ req[s].resp.member = Null
    /\ store # {}
    /\ ~\E x \in store : x.provider_user_id = req[s].user.kakao_id

\* C18: when the store applies the upsert without error, the request is
\* answered 200 with ok true; the member is the computed row (as res.json
\* writes it) when the store reports no row back, and the row the store
\* holds for that key when it reports one.
C18_EchoesComputedRow ==
  [][\A s \in Slots :
       (/\ req[s].op = "upsert" /\ req[s].pc = "store"
        /\ req'[s].pc = "done" /\ req'[s].sa # "error")
       => LET m == req'[s].resp.member
              row == JsonRow(req[s].row.v)
          IN  /\ req'[s].resp.status = 200
              /\ req'[s].resp.ok = True
              /\ req'[s].resp.error = ""
              /\ req'[s].sa = "empty" => m = Obj(row)
              /\ req'[s].sa = "rows"
                   => /\ m.t = "obj"
                      /\ {x \in store' : SameKey(x, row)} = {m.v}]_vars

\* the store applied an upsert and reported no row; the answer is 200 with
\* the computed row
C18_Witness ==
  \E s \in Slots :
    /\ Done(s) /\ req[s].op = "upsert" /\ req[s].sa = "empty"
    /\ req[s].resp.status = 200 /\ req[s].resp.ok = True
    /\ req[s].resp.member = Obj(JsonRow(req[s].row.v))
    /\ req[s].resp.member.v.provider_user_id = Str(<<"7">>)

\* the body is an object that carries an id, a number or a string
HasId(body) ==
  /\ body.t = "obj" /\ "id" \in DOMAIN body.v
  /\ body.v["id"].t \in {"num", "str"}

\* the identity a credential names
IdOf(op, token) == IF op = "jose" THEN token.sub ELSE token.kakao_id

\* C19: a credential is issued, and a record is written, only when the
\* provider's success answer to that request carries an id, and the identity
\* of the credential, or the provider_user_id of the record, is the string
\* form of that id: no credential or record for an identity the provider did
\* not return.
C19_IdRequired ==
  \A s \in Slots :
    Done(s)
    => /\ (req[s].op \in {"auth", "jose"} /\ req[s].resp.token # NoToken)
          => /\ HasId(req[s].got.data)
             /\ IdOf(req[s].op, req[s].resp.token)
                  = Str(JsString(Get(req[s].got.data, "id")))
       /\ (req[s].op = "upsert" /\ req[s].wrote # Undef)
          => /\ HasId(req[s].got.data)
             /\ req[s].wrote.v.provider_user_id
                  = Str(JsString(Get(req[s].got.data, "id")))

\* C20: for every provider payload, the payloads whose optional fields are
\* present but empty and those whose birthday is not a string included, the
\* row the running variant builds is the row the CommonJS construction
\* builds and the row the TypeScript construction builds.
C20_SameRow ==
  normRow # Undef
  => /\ normRow.v = RowJs(normIn)
     /\ normRow.v = RowTs(normIn)

====
